---------------------------- MODULE Spec2Model ----------------------------
(***************************************************************************)
(* ProductionCache (response-caching/src/production_cache.py): an          *)
(* in-process cache keyed by a digest of (prompt, params), with per-entry  *)
(* TTL, capacity eviction (LRU / LFU / FIFO) and request statistics.       *)
(*                                                                         *)
(* Time is an integer clock (time.time() read at the places the code reads *)
(* it).  Strings are TLA+ strings; SHA-256 is an uninterpreted injective   *)
(* function of the string it digests.  A float quotient a / b is the       *)
(* rational number [num |-> a, den |-> b].                                 *)
(***************************************************************************)
EXTENDS Integers, Sequences, FiniteSets, TLC

\* ------------------------------------------------------------------ bounds
MaxTime == 2
MaxCap == 2
TtlBound == 2
MaxCalls == 3
EvictCalls == 5
NThreads == 2
ConcCalls == 3
FaultCalls == 3
RaceCalls == 5
LiveCalls == 3

\* ------------------------------------------------------------------ values
None == "None"
LRU == "lru"
LFU == "lfu"
FIFO == "fifo"
CacheEvictionPolicy == {LRU, LFU, FIFO}

\* What a call gave its caller: the value it returned or the exception it
\* raised, and for a set the entries it evicted.
Returned(op, key, ret, raised, evicted) ==
    [op |-> op, raised |-> raised, key |-> key, ret |-> ret, evicted |-> evicted]

\* The response passed to the n-th call: the cache never inspects a response,
\* so every set call passes one it has not passed before.
Response(n) == "response " \o ToString(n)

\* The ttl argument of set (Optional[int]): omitted, or a number of seconds.
NoTtl == [given |-> FALSE, seconds |-> 0]

Ttl(n) == [given |-> TRUE, seconds |-> n]

TtlArgs == {NoTtl} \cup {Ttl(n) : n \in 0 .. (TtlBound - 1)}

\* ------------------------------------------------------------------ KeyCodec
\* The parameter names in use, in the order str.__lt__ gives them.
NameOrder == <<"max_tokens", "model", "temperature">>

Rank(name) == CHOOSE i \in 1 .. Len(NameOrder) : NameOrder[i] = name

StrLess(a, b) == Rank(a) < Rank(b)

Item(name, literal) == [name |-> name, literal |-> literal]

\* params dictionaries as the sequence of their items in insertion order;
\* a value is given by its JSON literal
ParamsModelTemp == <<Item("model", "\"gpt-4\""), Item("temperature", "0.7")>>

ParamsTempModel == <<Item("temperature", "0.7"), Item("model", "\"gpt-4\"")>>

ParamsEmpty == << >>

Request(prompt, params) == [prompt |-> prompt, params |-> params]

ItemsOf(params) == {params[i] : i \in 1 .. Len(params)}

\* What callers pass: the caller that stores passes model before temperature,
\* the caller that looks up or invalidates passes temperature before model.
Stores ==
    { Request("capital", ParamsModelTemp),
      Request("capital", ParamsEmpty),
      Request("weather", ParamsModelTemp) }

Lookups ==
    { Request("capital", ParamsTempModel),
      Request("capital", ParamsEmpty),
      Request("weather", ParamsTempModel) }

Requests == Stores \cup Lookups

\* the same prompt and the same key/value pairs, in whatever order
SameMapping(r1, r2) ==
    r1.prompt = r2.prompt /\ ItemsOf(r1.params) = ItemsOf(r2.params)

\* the items of a dict ordered by key: what sort_keys=True iterates over
SortedItems(params) ==
    [i \in 1 .. Len(params) |->
        CHOOSE e \in ItemsOf(params) :
            Cardinality({f \in ItemsOf(params) : StrLess(f.name, e.name)}) = i - 1]

InsertionItems(params) == params

RECURSIVE JoinItems(_)
JoinItems(items) ==
    IF Len(items) = 0 THEN ""
    ELSE "\"" \o items[1].name \o "\": " \o items[1].literal
         \o (IF Len(items) = 1 THEN "" ELSE ", " \o JoinItems(Tail(items)))

\* json.dumps(params): the items as the dictionary iterates over them
json_dumps_unsorted(params) == "{" \o JoinItems(InsertionItems(params)) \o "}"

\* json.dumps(params, sort_keys=True)
json_dumps_sorted(params) == "{" \o JoinItems(SortedItems(params)) \o "}"

\* hashlib.sha256(s.encode('utf-8')).hexdigest()
sha256_hexdigest(s) == "sha256(" \o s \o ")"

_make_key(prompt, params) ==
    sha256_hexdigest(prompt \o "_" \o json_dumps_sorted(params))

\* the key of each request, derived once
KeyTable == [r \in Requests |-> _make_key(r.prompt, r.params)]

KeyOf(r) == KeyTable[r]

\* ------------------------------------------------------------------ state
VARIABLES
    max_size,         \* self.max_size
    default_ttl,      \* self.default_ttl
    eviction_policy,  \* self.eviction_policy
    _cache,           \* self._cache: OrderedDict, as the sequence of its entries
    stats,            \* self.stats
    now,              \* the clock behind time.time()
    last,             \* the call that returned last, with what it returned
    returned,         \* how many calls have returned, how many of them get
                      \* calls, and how many of these with a value
    hist,             \* the calls made since construction, while they follow
                      \* set(a), set(b), get(a), set(c) and no entry has expired
                      \* (else Off)
    setlog,           \* per stored key, the ttl argument of the set that stored it
    used,             \* how many distinct keys the calls have named so far
    pc,               \* per thread, where it is in the call it is making
    frame,            \* per thread, the locals of that call
    _lock,            \* self._lock: the thread that owns it (0: none), how deep
    disk,             \* a PersistentResponseCache: its cache, ttl and stats
    fault,            \* the storage operation that raised in its last call
    monitor           \* a CachePerformanceMonitor: its stats

vars == <<max_size, default_ttl, eviction_policy, _cache, stats, now, last,
          returned, hist, setlog, used, pc, frame, _lock, disk, fault, monitor>>

threads == <<pc, frame, _lock>>

config == <<max_size, default_ttl, eviction_policy>>

persistent == <<disk, fault>>

\* ------------------------------------------------------------------ OrderedDict
Keys(c) == {c[i].key : i \in 1 .. Len(c)}

Has(c, k) == k \in Keys(c)

EntryOf(c, k) == c[CHOOSE i \in 1 .. Len(c) : c[i].key = k]

\* del d[k]
Del(c, k) == SelectSeq(c, LAMBDA e : e.key # k)

\* an assignment that keeps the creation time and the access count of an
\* entry already stored
SetItem_keep_history(c, k, e) ==
    IF Has(c, k)
    THEN [i \in 1 .. Len(c) |->
             IF c[i].key = k
             THEN [e EXCEPT !.created_at = c[i].created_at,
                            !.access_count = c[i].access_count]
             ELSE c[i]]
    ELSE Append(c, e)

\* d[k] = e: a new key goes to the end, an existing key keeps its position
SetItem(c, k, e) ==
    IF Has(c, k)
    THEN [i \in 1 .. Len(c) |-> IF c[i].key = k THEN e ELSE c[i]]
    ELSE Append(c, e)

\* d.move_to_end(k)
move_to_end(c, k) == Append(Del(c, k), EntryOf(c, k))

\* ------------------------------------------------------------------ helpers
Live(e, t) == t - e.created_at <= e.ttl

\* _cleanup_expired at clock t: the entries that stay
_cleanup_expired(c, t) == SelectSeq(c, LAMBDA e : ~(t - e.created_at > e.ttl))

\* the LFU scan: the first entry, in dictionary order, of least access_count
LfuCandidate(c) ==
    c[CHOOSE i \in 1 .. Len(c) :
        /\ \A j \in 1 .. Len(c) : c[j].access_count >= c[i].access_count
        /\ \A j \in 1 .. (i - 1) : c[j].access_count > c[i].access_count].key

_select_eviction_candidate(c, policy) ==
    IF Len(c) = 0 THEN None
    ELSE IF policy = LRU THEN c[1].key
    ELSE IF policy = LFU THEN LfuCandidate(c)
    ELSE c[1].key

\* _enforce_size_limits: the loop, with the entries it evicted so far
RECURSIVE EnforceLoop(_, _, _, _)
EnforceLoop(c, ms, policy, evicted) ==
    IF Len(c) > ms /\ Len(c) # 0
    THEN LET key_to_evict == _select_eviction_candidate(c, policy)
         IN  EnforceLoop(Del(c, key_to_evict), ms, policy,
                         Append(evicted, EntryOf(c, key_to_evict)))
    ELSE [cache |-> c, evicted |-> evicted]

\* a loop that stops one entry above max_size
_enforce_size_limits_one_above(c, ms, policy) ==
    EnforceLoop(c, ms + 1, policy, << >>)

\* a loop that evicts without counting
_enforce_size_limits_uncounted(c, ms, policy) ==
    [cache |-> EnforceLoop(c, ms, policy, << >>).cache, evicted |-> << >>]

\* _enforce_size_limits, lines 103-115
_enforce_size_limits(c, ms, policy) == EnforceLoop(c, ms, policy, << >>)

\* ttl or self.default_ttl
TtlOrDefault(ttl, dflt) ==
    IF ttl.given /\ ttl.seconds # 0 THEN ttl.seconds ELSE dflt

Entry(key, response, t, ttl) ==
    [key |-> key, value |-> response, created_at |-> t, last_accessed |-> t,
     access_count |-> 1, ttl |-> ttl]

Bump(st, counter) == [st EXCEPT ![counter] = @ + 1]

\* a float quotient, as the rational it denotes
Ratio(a, b) == [num |-> a, den |-> b]

\* ------------------------------------------------------------------ handlers
\* get, lines 157-182: the part under the lock.  t1 is the clock read by
\* _cleanup_expired, t2 >= t1 the clock read by get itself.
GetBody(c, st, key, t1, t2) ==
    LET swept == _cleanup_expired(c, t1)
    IN  IF Has(swept, key)
        THEN LET entry == EntryOf(swept, key)
             IN  IF Live(entry, t2)
                 THEN LET touched == [entry EXCEPT !.access_count = @ + 1,
                                                   !.last_accessed = t2]
                      IN  [cache |-> move_to_end(SetItem(swept, key, touched), key),
                           stats |-> Bump(st, "hits"),
                           ret |-> entry.value]
                 ELSE [cache |-> Del(swept, key),
                       stats |-> Bump(st, "misses"),
                       ret |-> None]
        ELSE [cache |-> swept, stats |-> Bump(st, "misses"), ret |-> None]

\* A ttl that is not a number (the str "60"): subtracting and comparing with
\* it raises TypeError.  It is coded as a number no numeric ttl takes.
NotANumber == -1

StrTtl == [given |-> TRUE, seconds |-> NotANumber]

\* current_time - entry['created_at'] > entry['ttl'] can be evaluated for
\* every entry the sweep of _cleanup_expired visits
Comparable(c) == \A i \in 1 .. Len(c) : c[i].ttl # NotANumber

\* get, lines 156-187: the try block and its handler.  The sweep raises
\* before it deletes anything; the handler counts an error and returns None.
GetTry(c, st, key, t1, t2) ==
    IF Comparable(c)
    THEN GetBody(c, st, key, t1, t2)
    ELSE [cache |-> c, stats |-> Bump(st, "errors"), ret |-> None]

\* set, lines 206-222: the part under the lock, at clock t
SetBody(c, st, key, response, ttl, t, ms, policy, dflt) ==
    LET enforced == IF Len(c) >= ms
                    THEN _enforce_size_limits(c, ms, policy)
                    ELSE [cache |-> c, evicted |-> << >>]
        entry == Entry(key, response, t, TtlOrDefault(ttl, dflt))
    IN  [cache |-> SetItem(enforced.cache, key, entry),
         stats |-> [st EXCEPT !.evictions = @ + Len(enforced.evicted)],
         evicted |-> enforced.evicted,
         ret |-> TRUE]

\* invalidate that reports success whether or not the key was stored
InvalidateBody_always_true(c, key) == [cache |-> Del(c, key), ret |-> TRUE]

\* invalidate, lines 243-248
InvalidateBody(c, key) ==
    IF Has(c, key) THEN [cache |-> Del(c, key), ret |-> TRUE]
    ELSE [cache |-> c, ret |-> FALSE]

\* clear that counts the entries after clearing them
ClearBody_count_after(c) == [cache |-> << >>, ret |-> Len(<< >>)]

\* clear, lines 263-267
ClearBody(c) == [cache |-> << >>, ret |-> Len(c)]

\* the hit rate as a fraction of 1
HitRate_fraction(hits, total) ==
    IF total > 0 THEN Ratio(hits, total) ELSE Ratio(0, 1)

\* (hits / total * 100) if total > 0 else 0, line 281
HitRate(hits, total) ==
    IF total > 0 THEN Ratio(hits * 100, total) ELSE Ratio(0, 1)

\* get_stats, lines 276-302; dividing by max_size = 0 raises
StatsBody(c, st, ms, policy, dflt, t) ==
    IF ms = 0
    THEN [raised |-> "ZeroDivisionError", ret |-> None]
    ELSE [raised |-> None,
          ret |-> [basic_stats |->
                      [total_requests |-> st.total_requests,
                       hits |-> st.hits,
                       misses |-> st.misses,
                       hit_rate |-> HitRate(st.hits, st.total_requests),
                       evictions |-> st.evictions,
                       errors |-> st.errors],
                   cache_stats |->
                      [current_entries |-> Len(c),
                       max_entries |-> ms,
                       usage_percent |-> Ratio(Len(c) * 100, ms)],
                   configuration |->
                      [eviction_policy |-> policy, default_ttl |-> dflt],
                   uptime |-> t - st.start_time]]

\* ------------------------------------------------------------------ observers
AllKeys == {KeyOf(r) : r \in Requests}

\* The cache only tests keys for equality, so the calls bring the mappings
\* up in one fixed order: a call passes a mapping passed before, or the next
\* one of MappingOrder.
MappingOrder ==
    <<Request("capital", ParamsModelTemp),
      Request("capital", ParamsEmpty),
      Request("weather", ParamsModelTemp)>>

MappingIndex(r) ==
    CHOOSE i \in 1 .. Len(MappingOrder) : SameMapping(MappingOrder[i], r)

Nameable(r) == MappingIndex(r) <= used + 1

Naming(r) == IF MappingIndex(r) > used THEN MappingIndex(r) ELSE used

Absent == [stored |-> FALSE, ttl |-> NoTtl]

StoredWith(ttl) == [stored |-> TRUE, ttl |-> ttl]

\* setlog after a call that left the store as c
Relog(log, c) == [k \in AllKeys |-> IF Has(c, k) THEN log[k] ELSE Absent]

RelogSet(log, c, key, ttl) ==
    [k \in AllKeys |-> IF k = key THEN StoredWith(ttl)
                       ELSE IF Has(c, k) THEN log[k] ELSE Absent]

Call(op, key) == [op |-> op, key |-> key]

Off == <<Call("off", "")>>

FollowsScenario(h) ==
    /\ Len(h) <= 4
    /\ Len(h) >= 1 => h[1].op = "set"
    /\ Len(h) >= 2 => h[2].op = "set" /\ h[2].key # h[1].key
    /\ Len(h) >= 3 => h[3].op = "get" /\ h[3].key = h[1].key
    /\ Len(h) >= 4 => h[4].op = "set" /\ h[4].key \notin {h[1].key, h[2].key}

Track(h, op, key, noExpiry) ==
    IF h # Off /\ noExpiry /\ FollowsScenario(Append(h, Call(op, key)))
    THEN Append(h, Call(op, key))
    ELSE Off

CountCall(n, op, ret) ==
    [calls |-> n.calls + 1,
     gets |-> n.gets + (IF op = "get" THEN 1 ELSE 0),
     found |-> n.found + (IF op = "get" /\ ret # None THEN 1 ELSE 0)]

\* ------------------------------------------------------------------ construction
Threads == 1 .. NThreads

NoFrame == [key |-> "", response |-> "", ttl |-> NoTtl, total |-> 0, errors |-> 0]

Unlocked == [owner |-> 0, depth |-> 0]

\* __init__(max_size, ttl, eviction_policy), lines 60-78
__init__(ms, ttl, policy) ==
    /\ max_size = ms
    /\ default_ttl = ttl
    /\ eviction_policy = policy
    /\ _lock = Unlocked
    /\ _cache = << >>
    /\ now = 0
    /\ stats = [hits |-> 0, misses |-> 0, evictions |-> 0, errors |-> 0,
                total_requests |-> 0, start_time |-> 0]
    /\ last = Returned("__init__", "", None, None, << >>)
    /\ returned = [calls |-> 0, gets |-> 0, found |-> 0]
    /\ hist = << >>
    /\ setlog = [k \in AllKeys |-> Absent]
    /\ used = 0
    /\ pc = [t \in Threads |-> "idle"]
    /\ frame = [t \in Threads |-> NoFrame]

\* PersistentResponseCache.__init__, disk_cache.py lines 41-55: an empty
\* directory, the ttl, the counters at 0
PersistentResponseCache(ttl) ==
    [cache |-> {}, ttl |-> ttl,
     stats |-> [hits |-> 0, misses |-> 0, total_requests |-> 0, disk_size |-> 0]]

NoFault == "none"

\* a persistent cache that no call is made on
NoPersistentCache == disk = PersistentResponseCache(TtlBound) /\ fault = NoFault

\* CachePerformanceMonitor.__init__, cache_stats.py lines 32-49: self.stats,
\* with performance_by_key as the mapping of the keys it holds
CachePerformanceMonitor ==
    [total_requests |-> 0, hits |-> 0, misses |-> 0,
     response_times |-> [cache_hits |-> << >>, cache_misses |-> << >>,
                         api_calls |-> << >>],
     cache_size_history |-> << >>,
     hit_rate_history |-> << >>,
     performance_by_key |-> << >>]

\* a monitor that no call is made on
NoMonitor == monitor = CachePerformanceMonitor

Init ==
    \E ms \in 0 .. MaxCap, policy \in CacheEvictionPolicy :
        __init__(ms, TtlBound, policy) /\ NoPersistentCache /\ NoMonitor

\* ------------------------------------------------------------------ calls
\* One caller: every call runs from its first line to its return.

\* get(prompt, params), called dt after the call before; the clock may
\* advance by d between the read in _cleanup_expired and the read in get
get(r, dt, d) ==
    /\ Nameable(r)
    /\ LET key == KeyOf(r)
           out == GetTry(_cache, Bump(stats, "total_requests"), key,
                          now + dt, now + dt + d)
       IN  /\ _cache' = out.cache
           /\ stats' = out.stats
           /\ now' = now + dt + d
           /\ last' = Returned("get", key, out.ret, None, << >>)
           /\ returned' = CountCall(returned, "get", out.ret)
           /\ hist' = Track(hist, "get", key,
                            Keys(_cache) \subseteq Keys(out.cache))
           /\ setlog' = Relog(setlog, out.cache)
           /\ used' = Naming(r)
    /\ UNCHANGED <<config, persistent, monitor, threads>>

\* set(prompt, params, response, ttl), called dt after the call before
set(r, response, ttl, dt) ==
    /\ Nameable(r)
    /\ LET key == KeyOf(r)
           out == SetBody(_cache, stats, key, response, ttl, now + dt,
                          max_size, eviction_policy, default_ttl)
       IN  /\ _cache' = out.cache
           /\ stats' = out.stats
           /\ now' = now + dt
           /\ last' = Returned("set", key, out.ret, None, out.evicted)
           /\ returned' = CountCall(returned, "set", out.ret)
           /\ hist' = Track(hist, "set", key, TRUE)
           /\ setlog' = RelogSet(setlog, out.cache, key, ttl)
           /\ used' = Naming(r)
    /\ UNCHANGED <<config, persistent, monitor, threads>>

\* invalidate(prompt, params)
invalidate(r) ==
    /\ Nameable(r)
    /\ LET key == KeyOf(r)
           out == InvalidateBody(_cache, key)
       IN  /\ _cache' = out.cache
           /\ last' = Returned("invalidate", key, out.ret, None, << >>)
           /\ returned' = CountCall(returned, "invalidate", out.ret)
           /\ hist' = Track(hist, "invalidate", key, TRUE)
           /\ setlog' = Relog(setlog, out.cache)
           /\ used' = Naming(r)
    /\ UNCHANGED <<config, persistent, monitor, stats, now, threads>>

\* clear()
clear ==
    /\ LET out == ClearBody(_cache)
       IN  /\ _cache' = out.cache
           /\ last' = Returned("clear", "", out.ret, None, << >>)
           /\ returned' = CountCall(returned, "clear", out.ret)
           /\ hist' = Track(hist, "clear", "", TRUE)
           /\ setlog' = Relog(setlog, out.cache)
    /\ UNCHANGED <<config, persistent, monitor, stats, now, used, threads>>

\* get_stats()
get_stats ==
    /\ LET out == StatsBody(_cache, stats, max_size, eviction_policy,
                            default_ttl, now)
       IN  /\ last' = Returned("get_stats", "", out.ret, out.raised, << >>)
           /\ returned' = CountCall(returned, "get_stats", out.ret)
    /\ hist' = Track(hist, "get_stats", "", TRUE)
    /\ UNCHANGED <<config, persistent, monitor, _cache, stats, now, setlog, used, threads>>

\* the clock advances between calls
Tick ==
    /\ now < MaxTime
    /\ now' = now + 1
    /\ UNCHANGED <<config, persistent, monitor, _cache, stats, last, returned, hist, setlog, used,
                   threads>>

Next ==
    \/ /\ returned.calls < MaxCalls
       /\ \/ \E r \in Lookups, d \in 0 .. 1 : now + d <= MaxTime /\ get(r, 0, d)
          \/ \E r \in Stores, ttl \in TtlArgs :
                set(r, Response(returned.calls + 1), ttl, 0)
          \/ \E r \in Lookups : invalidate(r)
          \/ clear
          \/ get_stats
    \/ Tick

Spec == Init /\ [][Next]_vars

\* ------------------------------------------------------------------ workloads
\* A caller that only sets (with the default ttl) and gets, each call one
\* second after the one before, on a cache whose default ttl outlasts the run.
InitEvict ==
    \E ms \in 1 .. MaxCap, policy \in CacheEvictionPolicy :
        __init__(ms, EvictCalls + 1, policy) /\ NoPersistentCache /\ NoMonitor

NextEvict ==
    /\ returned.calls < EvictCalls
    /\ \/ \E r \in Lookups : get(r, 1, 0)
       \/ \E r \in Stores : set(r, Response(returned.calls + 1), NoTtl, 1)

SpecEvict == InitEvict /\ [][NextEvict]_vars

\* ------------------------------------------------------------------ faults
\* A params value json.dumps cannot serialize (an object, a set)
NotSerializable == "<object>"

ParamsUnserializable == <<Item("client", NotSerializable)>>

Serializable(params) ==
    \A i \in 1 .. Len(params) : params[i].literal # NotSerializable

Unserializable == {Request("capital", ParamsUnserializable)}

\* key derivation inside the try block: the handler counts an error and
\* returns the value of a miss
KeyFailure_caught(st, op) ==
    [stats |-> Bump(st, "errors"), raised |-> None,
     ret |-> IF op = "get" THEN None ELSE FALSE]

\* _make_key raising at line 153, 203 or 240: before the try block, and in
\* get before total_requests is counted
KeyFailure(st, op) == [stats |-> st, raised |-> "TypeError", ret |-> None]

\* get, set or invalidate called with params that cannot be serialized
KeyRaises(r, op) ==
    /\ ~Serializable(r.params)
    /\ LET out == KeyFailure(stats, op)
       IN  /\ stats' = out.stats
           /\ last' = Returned(op, "", out.ret, out.raised, << >>)
           /\ returned' = [returned EXCEPT !.calls = @ + 1]
    /\ hist' = Off
    /\ UNCHANGED <<config, persistent, monitor, _cache, now, setlog, used, threads>>

\* A caller that passes ill-typed arguments among well-typed ones; the clock
\* stands still.
InitFault ==
    \E ms \in 1 .. MaxCap, policy \in CacheEvictionPolicy :
        __init__(ms, TtlBound, policy) /\ NoPersistentCache /\ NoMonitor

NextFault ==
    /\ returned.calls < FaultCalls
    /\ \/ \E r \in Lookups : get(r, 0, 0)
       \/ \E r \in Stores, ttl \in {NoTtl, StrTtl} :
             set(r, Response(returned.calls + 1), ttl, 0)
       \/ \E r \in Lookups : invalidate(r)
       \/ \E r \in Unserializable, op \in {"get", "set", "invalidate"} :
             KeyRaises(r, op)

SpecFault == InitFault /\ [][NextFault]_vars

\* ------------------------------------------------------------------ threads
\* Several callers: a call is a sequence of steps, and steps of different
\* threads interleave.  The clock stands still and set is called without ttl.

\* threading.Lock: the owner cannot acquire it again
CanAcquire_plain_lock(l, t) == l.owner = 0

\* no lock at all: every thread enters at once
CanAcquire_no_lock(l, t) == TRUE

\* threading.RLock: free, or owned by one thread that may acquire it again
CanAcquire(l, t) == l.owner = 0 \/ l.owner = t

Acquire(l, t) == [owner |-> t, depth |-> l.depth + 1]

Release(l, t) ==
    IF l.depth = 1 THEN Unlocked ELSE [owner |-> t, depth |-> l.depth - 1]

InCall == {t \in Threads : pc[t] # "idle"}

\* fewer than n calls have been started
Budget(n) == returned.calls + Cardinality(InCall) < n

CanCall(t) == pc[t] = "idle"

Goto(t, label) == pc' = [pc EXCEPT ![t] = label]

\* get, lines 153-154: the key, and the read of stats["total_requests"]
GetLoad(t, r) ==
    /\ CanCall(t)
    /\ Nameable(r)
    /\ frame' = [frame EXCEPT ![t] = [NoFrame EXCEPT !.key = KeyOf(r),
                                                     !.total = stats.total_requests]]
    /\ used' = Naming(r)
    /\ Goto(t, "get_store")
    /\ UNCHANGED <<config, persistent, monitor, _cache, stats, now, last, returned, hist, setlog, _lock>>

\* get, line 154: the write of stats["total_requests"]
GetStore(t) ==
    /\ pc[t] = "get_store"
    /\ stats' = [stats EXCEPT !.total_requests = frame[t].total + 1]
    /\ Goto(t, "get_lock")
    /\ UNCHANGED <<config, persistent, monitor, _cache, now, last, returned, hist, setlog, used, frame,
                   _lock>>

\* with self._lock, lines 157, 206 and 243
Lock(t, op) ==
    /\ pc[t] = op \o "_lock"
    /\ CanAcquire(_lock, t)
    /\ _lock' = Acquire(_lock, t)
    /\ Goto(t, op \o "_locked")
    /\ UNCHANGED <<config, persistent, monitor, _cache, stats, now, last, returned, hist, setlog, used,
                   frame>>

\* get, lines 158-182, under the lock; _cleanup_expired takes the lock again.
\* When the sweep raises (line 96, before it deletes anything) the exception
\* leaves the with block, which releases the lock, and the call goes on in
\* its handler at line 184.
GetLocked(t) ==
    /\ pc[t] = "get_locked"
    /\ CanAcquire(_lock, t)
    /\ IF Comparable(_cache)
       THEN LET out == GetBody(_cache, stats, frame[t].key, now, now)
            IN  /\ _cache' = out.cache
                /\ stats' = out.stats
                /\ last' = Returned("get", frame[t].key, out.ret, None, << >>)
                /\ returned' = CountCall(returned, "get", out.ret)
                /\ setlog' = Relog(setlog, out.cache)
                /\ frame' = [frame EXCEPT ![t] = NoFrame]
                /\ Goto(t, "idle")
       ELSE /\ Goto(t, "get_except")
            /\ UNCHANGED <<_cache, stats, last, returned, setlog, frame>>
    /\ hist' = Off
    /\ _lock' = Release(_lock, t)
    /\ UNCHANGED <<config, persistent, monitor, now, used>>

\* get, line 186, outside the lock: the read of stats["errors"]
GetExceptLoad(t) ==
    /\ pc[t] = "get_except"
    /\ frame' = [frame EXCEPT ![t].errors = stats.errors]
    /\ Goto(t, "get_except_store")
    /\ UNCHANGED <<config, persistent, monitor, _cache, stats, now, last, returned,
                   hist, setlog, used, _lock>>

\* get, lines 186-187: the write of stats["errors"], and return None
GetExceptStore(t) ==
    /\ pc[t] = "get_except_store"
    /\ stats' = [stats EXCEPT !.errors = frame[t].errors + 1]
    /\ last' = Returned("get", frame[t].key, None, None, << >>)
    /\ returned' = CountCall(returned, "get", None)
    /\ frame' = [frame EXCEPT ![t] = NoFrame]
    /\ Goto(t, "idle")
    /\ UNCHANGED <<config, persistent, monitor, _cache, now, hist, setlog, used, _lock>>

\* set, line 203: the key
SetCallWith(t, r, ttl) ==
    /\ CanCall(t)
    /\ Nameable(r)
    /\ frame' = [frame EXCEPT ![t] =
                    [NoFrame EXCEPT !.key = KeyOf(r),
                                    !.ttl = ttl,
                                    !.response = Response(returned.calls
                                                          + Cardinality(InCall) + 1)]]
    /\ used' = Naming(r)
    /\ Goto(t, "set_lock")
    /\ UNCHANGED <<config, persistent, monitor, _cache, stats, now, last, returned, hist, setlog, _lock>>

SetCall(t, r) == SetCallWith(t, r, NoTtl)

\* set, lines 207-222, under the lock; _enforce_size_limits takes the lock again
SetLocked(t) ==
    /\ pc[t] = "set_locked"
    /\ Len(_cache) >= max_size => CanAcquire(_lock, t)
    /\ LET out == SetBody(_cache, stats, frame[t].key, frame[t].response,
                          frame[t].ttl, now, max_size, eviction_policy, default_ttl)
       IN  /\ _cache' = out.cache
           /\ stats' = out.stats
           /\ last' = Returned("set", frame[t].key, out.ret, None, out.evicted)
           /\ returned' = CountCall(returned, "set", out.ret)
           /\ setlog' = RelogSet(setlog, out.cache, frame[t].key, frame[t].ttl)
    /\ hist' = Off
    /\ _lock' = Release(_lock, t)
    /\ frame' = [frame EXCEPT ![t] = NoFrame]
    /\ Goto(t, "idle")
    /\ UNCHANGED <<config, persistent, monitor, now, used>>

\* invalidate, line 240: the key
InvalidateCall(t, r) ==
    /\ CanCall(t)
    /\ Nameable(r)
    /\ frame' = [frame EXCEPT ![t] = [NoFrame EXCEPT !.key = KeyOf(r)]]
    /\ used' = Naming(r)
    /\ Goto(t, "invalidate_lock")
    /\ UNCHANGED <<config, persistent, monitor, _cache, stats, now, last, returned, hist, setlog, _lock>>

\* invalidate, lines 244-248, under the lock
InvalidateLocked(t) ==
    /\ pc[t] = "invalidate_locked"
    /\ LET out == InvalidateBody(_cache, frame[t].key)
       IN  /\ _cache' = out.cache
           /\ last' = Returned("invalidate", frame[t].key, out.ret, None, << >>)
           /\ returned' = CountCall(returned, "invalidate", out.ret)
           /\ setlog' = Relog(setlog, out.cache)
    /\ hist' = Off
    /\ _lock' = Release(_lock, t)
    /\ frame' = [frame EXCEPT ![t] = NoFrame]
    /\ Goto(t, "idle")
    /\ UNCHANGED <<config, persistent, monitor, stats, now, used>>

\* clear, line 262: entering the try block
ClearCall(t) ==
    /\ CanCall(t)
    /\ Goto(t, "clear_lock")
    /\ UNCHANGED <<config, persistent, monitor, _cache, stats, now, last, returned, hist, setlog, used,
                   frame, _lock>>

\* clear, lines 264-267, under the lock
ClearLocked(t) ==
    /\ pc[t] = "clear_locked"
    /\ LET out == ClearBody(_cache)
       IN  /\ _cache' = out.cache
           /\ last' = Returned("clear", "", out.ret, None, << >>)
           /\ returned' = CountCall(returned, "clear", out.ret)
           /\ setlog' = Relog(setlog, out.cache)
    /\ hist' = Off
    /\ _lock' = Release(_lock, t)
    /\ Goto(t, "idle")
    /\ UNCHANGED <<config, persistent, monitor, stats, now, used, frame>>

\* get_stats, line 274: the call
StatsCall(t) ==
    /\ CanCall(t)
    /\ Goto(t, "get_stats_lock")
    /\ UNCHANGED <<config, persistent, monitor, _cache, stats, now, last, returned, hist, setlog, used,
                   frame, _lock>>

\* get_stats, lines 277-302, under the lock; leaving the with block releases
\* the lock when the division raises, too
StatsLocked(t) ==
    /\ pc[t] = "get_stats_locked"
    /\ LET out == StatsBody(_cache, stats, max_size, eviction_policy,
                            default_ttl, now)
       IN  /\ last' = Returned("get_stats", "", out.ret, out.raised, << >>)
           /\ returned' = CountCall(returned, "get_stats", out.ret)
    /\ hist' = Off
    /\ _lock' = Release(_lock, t)
    /\ Goto(t, "idle")
    /\ UNCHANGED <<config, persistent, monitor, _cache, stats, now, setlog, used, frame>>

InitConc ==
    \E ms \in 1 .. MaxCap, policy \in CacheEvictionPolicy :
        __init__(ms, TtlBound, policy) /\ NoPersistentCache /\ NoMonitor

NextConc ==
    \E t \in Threads :
        \/ Budget(ConcCalls) /\ \E r \in Lookups : GetLoad(t, r)
        \/ GetStore(t)
        \/ \E op \in {"get", "set", "invalidate"} : Lock(t, op)
        \/ GetLocked(t)
        \/ Budget(ConcCalls) /\ \E r \in Stores : SetCall(t, r)
        \/ SetLocked(t)
        \/ Budget(ConcCalls) /\ \E r \in Lookups : InvalidateCall(t, r)
        \/ InvalidateLocked(t)

SpecConc == InitConc /\ [][NextConc]_vars

\* the one key that callers compete for
RaceStore == Request("capital", ParamsModelTemp)

RaceLookup == Request("capital", ParamsTempModel)

\* Several callers making every kind of call, with well-typed and ill-typed
\* ttl arguments, on a cache of any max_size.  A thread whose next step stays
\* possible takes it in the end: a running thread keeps being scheduled, and
\* a thread waiting for a lock that stays free gets it.
MinCap == -1

LockOps == {"get", "set", "invalidate", "clear", "get_stats"}

InitLive ==
    \E ms \in MinCap .. MaxCap, policy \in CacheEvictionPolicy :
        __init__(ms, TtlBound, policy) /\ NoPersistentCache /\ NoMonitor

\* the steps of a call of thread t after its first
ThreadRun(t) ==
    \/ GetStore(t)
    \/ \E op \in LockOps : Lock(t, op)
    \/ GetLocked(t)
    \/ GetExceptLoad(t)
    \/ GetExceptStore(t)
    \/ SetLocked(t)
    \/ InvalidateLocked(t)
    \/ ClearLocked(t)
    \/ StatsLocked(t)

NextLive ==
    \E t \in Threads :
        \/ Budget(LiveCalls) /\ GetLoad(t, RaceLookup)
        \/ Budget(LiveCalls) /\ \E ttl \in {NoTtl, StrTtl} :
                                    SetCallWith(t, RaceStore, ttl)
        \/ Budget(LiveCalls) /\ InvalidateCall(t, RaceLookup)
        \/ Budget(LiveCalls) /\ ClearCall(t)
        \/ Budget(LiveCalls) /\ StatsCall(t)
        \/ ThreadRun(t)

SpecLive ==
    InitLive /\ [][NextLive]_vars /\ \A t \in Threads : WF_pc(ThreadRun(t))

\* Several callers of one key: each looks the key up and stores a response
\* of its own (the cache-aside loop of demonstrate_production_cache) or
\* invalidates the key.
InitRace ==
    \E ms \in 1 .. MaxCap, policy \in CacheEvictionPolicy :
        __init__(ms, TtlBound, policy) /\ NoPersistentCache /\ NoMonitor

NextRace ==
    \E t \in Threads :
        \/ Budget(RaceCalls) /\ GetLoad(t, RaceLookup)
        \/ GetStore(t)
        \/ \E op \in {"get", "set", "invalidate"} : Lock(t, op)
        \/ GetLocked(t)
        \/ Budget(RaceCalls) /\ SetCall(t, RaceStore)
        \/ SetLocked(t)
        \/ Budget(RaceCalls) /\ InvalidateCall(t, RaceLookup)
        \/ InvalidateLocked(t)

SpecRace == InitRace /\ [][NextRace]_vars

\* Several callers looking one key up while it is stored, and asking for the
\* statistics.
HitCalls == 4

InitHits ==
    \E ms \in 1 .. MaxCap, policy \in CacheEvictionPolicy :
        __init__(ms, TtlBound, policy) /\ NoPersistentCache /\ NoMonitor

NextHits ==
    \E t \in Threads :
        \/ Budget(HitCalls) /\ GetLoad(t, RaceLookup)
        \/ GetStore(t)
        \/ \E op \in {"get", "set", "get_stats"} : Lock(t, op)
        \/ GetLocked(t)
        \/ Budget(HitCalls) /\ SetCall(t, RaceStore)
        \/ SetLocked(t)
        \/ Budget(HitCalls) /\ StatsCall(t)
        \/ StatsLocked(t)

SpecHits == InitHits /\ [][NextHits]_vars

\* Several callers filling a cache of any max_size >= 0: they store under
\* every key, and look up, invalidate and clear.
BoundCalls == 3

InitBound ==
    \E ms \in 0 .. MaxCap, policy \in CacheEvictionPolicy :
        __init__(ms, TtlBound, policy) /\ NoPersistentCache /\ NoMonitor

NextBound ==
    \E t \in Threads :
        \/ Budget(BoundCalls) /\ GetLoad(t, RaceLookup)
        \/ GetStore(t)
        \/ \E op \in {"get", "set", "invalidate", "clear"} : Lock(t, op)
        \/ GetLocked(t)
        \/ Budget(BoundCalls) /\ \E r \in Stores : SetCall(t, r)
        \/ SetLocked(t)
        \/ Budget(BoundCalls) /\ InvalidateCall(t, RaceLookup)
        \/ InvalidateLocked(t)
        \/ Budget(BoundCalls) /\ ClearCall(t)
        \/ ClearLocked(t)

SpecBound == InitBound /\ [][NextBound]_vars

\* ------------------------------------------------------------------ persistence
\* PersistentResponseCache (disk_cache.py): records (response, timestamp) kept
\* by key in a diskcache.Cache, whose operations can raise.
DiskCalls == 3

\* the storage operations that can raise
GetFault == "cache.get"
DeleteFault == "cache.delete"
SetFault == "cache.set"
ClearFault == "cache.clear"

DiskHas(d, key) == \E rec \in d.cache : rec.key = key

DiskRecord(d, key) == CHOOSE rec \in d.cache : rec.key = key

DiskCount(d, counter) == [d EXCEPT !.stats = Bump(@, counter)]

\* a failing read that counts nothing
DiskGetBody_uncounted(d, key, t, f) ==
    LET d1 == DiskCount(d, "total_requests")
    IN  IF f = GetFault
        THEN [disk |-> d1, ret |-> None]
        ELSE IF DiskHas(d1, key) /\ t - DiskRecord(d1, key).timestamp < d1.ttl
             THEN [disk |-> DiskCount(d1, "hits"),
                   ret |-> DiskRecord(d1, key).response]
             ELSE [disk |-> DiskCount(d1, "misses"), ret |-> None]

\* PersistentResponseCache.get, lines 104-135, at clock t; f is the storage
\* operation that raises in this call, if it is reached
DiskGetBody(d, key, t, f) ==
    LET d1 == DiskCount(d, "total_requests")
    IN  IF f = GetFault
        THEN [disk |-> DiskCount(d1, "misses"), ret |-> None]
        ELSE IF DiskHas(d1, key)
             THEN LET rec == DiskRecord(d1, key)
                  IN  IF t - rec.timestamp < d1.ttl
                      THEN [disk |-> DiskCount(d1, "hits"), ret |-> rec.response]
                      ELSE IF f = DeleteFault
                           THEN [disk |-> DiskCount(d1, "misses"), ret |-> None]
                           ELSE [disk |-> DiskCount(
                                              [d1 EXCEPT !.cache = @ \ {rec}],
                                              "misses"),
                                 ret |-> None]
             ELSE [disk |-> DiskCount(d1, "misses"), ret |-> None]

\* whether the operation f is reached, and so raises, in a get of key at t
GetReaches(d, key, t, f) ==
    \/ f = GetFault
    \/ f = DeleteFault /\ DiskHas(d, key) /\ ~(t - DiskRecord(d, key).timestamp < d.ttl)

\* PersistentResponseCache.set, lines 152-165
DiskSetBody(d, key, response, t, f) ==
    IF f = SetFault
    THEN d
    ELSE [d EXCEPT !.cache =
             {rec \in @ : rec.key # key}
                 \cup {[key |-> key, response |-> response, timestamp |-> t]}]

\* PersistentResponseCache.clear, lines 198-205: when cache.clear raises
\* nothing is reset
DiskClearBody(d, f) ==
    IF f = ClearFault
    THEN d
    ELSE [d EXCEPT !.cache = {},
                   !.stats = [hits |-> 0, misses |-> 0, total_requests |-> 0,
                              disk_size |-> 0]]

\* the records cleanup_expired deletes at clock t, line 223
DiskExpired(d, t) == {rec \in d.cache : t - rec.timestamp >= d.ttl}

\* whether the operation f is reached, and so raises, in a cleanup_expired
\* at t: cache.get at the first key, cache.delete at the first expired record
CleanupReaches(d, t, f) ==
    \/ f = GetFault /\ d.cache # {}
    \/ f = DeleteFault /\ DiskExpired(d, t) # {}

\* PersistentResponseCache.cleanup_expired, lines 207-233, at clock t: the
\* loop ends at the first operation that raises, with what it counted so far
DiskCleanupBody(d, t, f) ==
    IF CleanupReaches(d, t, f)
    THEN [disk |-> d, ret |-> 0]
    ELSE [disk |-> [d EXCEPT !.cache = @ \ DiskExpired(d, t)],
          ret |-> Cardinality(DiskExpired(d, t))]

PersistentResponseCache_get(r, f) ==
    /\ Nameable(r)
    /\ LET key == KeyOf(r)
           out == DiskGetBody(disk, key, now, f)
       IN  /\ disk' = out.disk
           /\ fault' = IF GetReaches(disk, key, now, f) THEN f ELSE NoFault
           /\ last' = Returned("disk.get", key, out.ret, None, << >>)
           /\ returned' = CountCall(returned, "disk.get", out.ret)
    /\ used' = Naming(r)
    /\ UNCHANGED <<config, monitor, _cache, stats, now, hist, setlog, threads>>

PersistentResponseCache_set(r, response, f) ==
    /\ Nameable(r)
    /\ LET key == KeyOf(r)
       IN  /\ disk' = DiskSetBody(disk, key, response, now, f)
           /\ fault' = f
           /\ last' = Returned("disk.set", key, None, None, << >>)
           /\ returned' = CountCall(returned, "disk.set", None)
    /\ used' = Naming(r)
    /\ UNCHANGED <<config, monitor, _cache, stats, now, hist, setlog, threads>>

PersistentResponseCache_clear(f) ==
    /\ disk' = DiskClearBody(disk, f)
    /\ fault' = f
    /\ last' = Returned("disk.clear", "", None, None, << >>)
    /\ returned' = CountCall(returned, "disk.clear", None)
    /\ UNCHANGED <<config, monitor, _cache, stats, now, hist, setlog, used, threads>>

PersistentResponseCache_cleanup_expired(f) ==
    /\ LET out == DiskCleanupBody(disk, now, f)
       IN  /\ disk' = out.disk
           /\ last' = Returned("disk.cleanup_expired", "", out.ret, None, << >>)
           /\ returned' = CountCall(returned, "disk.cleanup_expired", out.ret)
    /\ fault' = IF CleanupReaches(disk, now, f) THEN f ELSE NoFault
    /\ UNCHANGED <<config, monitor, _cache, stats, now, hist, setlog, used, threads>>

\* A persistent cache of any ttl, next to a ProductionCache that no call is
\* made on; the clock advances between calls.
InitDisk ==
    /\ __init__(1, TtlBound, LRU)
    /\ \E ttl \in 1 .. TtlBound : disk = PersistentResponseCache(ttl)
    /\ fault = NoFault
    /\ NoMonitor

NextDisk ==
    \/ /\ returned.calls < DiskCalls
       /\ \/ \E r \in Lookups, f \in {NoFault, GetFault, DeleteFault} :
                 PersistentResponseCache_get(r, f)
          \/ \E r \in Stores, f \in {NoFault, SetFault} :
                 PersistentResponseCache_set(r, Response(returned.calls + 1), f)
          \/ \E f \in {NoFault, ClearFault} : PersistentResponseCache_clear(f)
          \/ \E f \in {NoFault, GetFault, DeleteFault} :
                 PersistentResponseCache_cleanup_expired(f)
    \/ Tick

SpecDisk == InitDisk /\ [][NextDisk]_vars

\* ------------------------------------------------------------------ monitoring
\* CachePerformanceMonitor (cache_stats.py).  Times are in milliseconds.
MonCalls == 3

\* response times a caller measures, below and above the 0.1 s that
\* _generate_recommendations takes for slow
ResponseTimes == {50, 200}

SlowHit == 100

\* what a caller passes for cache_size and api_call_time: the defaults, or
\* the size of the cache and the time of the API call
Measured == {[cache_size |-> 0, api_call_time |-> 0],
             [cache_size |-> 1, api_call_time |-> 1000]}

\* the keys a caller records requests of
MonitoredKeys == {KeyOf(Request("capital", ParamsEmpty)),
                  KeyOf(Request("weather", ParamsModelTemp))}

\* the entry the defaultdict makes for a key it does not hold, lines 43-48
DefaultKeyStats ==
    [requests |-> 0, hits |-> 0, misses |-> 0, avg_response_time |-> Ratio(0, 1)]

\* performance_by_key[key]
KeyStatsOf(pbk, key) == IF key \in DOMAIN pbk THEN pbk[key] ELSE DefaultKeyStats

\* the running average, lines 86-93
RunningAverage(avg, n, response_time) ==
    IF n = 1 THEN Ratio(response_time, 1)
    ELSE Ratio(avg.num * (n - 1) + response_time * avg.den, avg.den * n)

\* per-key statistics that count hits only
KeyStats_hits_only(old, is_hit, response_time) ==
    [requests |-> old.requests + 1,
     hits |-> old.hits + (IF is_hit THEN 1 ELSE 0),
     misses |-> old.misses,
     avg_response_time |->
         RunningAverage(old.avg_response_time, old.requests + 1, response_time)]

\* the per-key statistics after one more request, lines 78-93
KeyStats(old, is_hit, response_time) ==
    [requests |-> old.requests + 1,
     hits |-> old.hits + (IF is_hit THEN 1 ELSE 0),
     misses |-> old.misses + (IF is_hit THEN 0 ELSE 1),
     avg_response_time |->
         RunningAverage(old.avg_response_time, old.requests + 1, response_time)]

\* d[key] = value in a dict
Put(d, key, value) ==
    [k \in DOMAIN d \cup {key} |-> IF k = key THEN value ELSE d[k]]

\* d[k] on a dict that holds k: the value, and the dict as the read leaves it
DictGetItem(d, k) == [dict |-> d, value |-> d[k]]

\* performance_by_key[key] on the defaultdict: a key it does not hold is
\* added with the entry of the factory, lines 43-48
DefaultDictGetItem(pbk, key) ==
    [dict |-> IF key \in DOMAIN pbk THEN pbk ELSE Put(pbk, key, DefaultKeyStats),
     value |-> KeyStatsOf(pbk, key)]

\* items() that finds the entries by looking a key up first
DictItems_by_lookup(d) ==
    LET looked == DefaultDictGetItem(d, "").dict
    IN  [dict |-> looked, value |-> {<<k, looked[k]>> : k \in DOMAIN looked}]

\* d.items(): the pairs of d, and the dict as the read leaves it
DictItems(d) == [dict |-> d, value |-> {<<k, d[k]>> : k \in DOMAIN d}]

\* len(d)
DictLen(d) == [dict |-> d, value |-> Cardinality(DOMAIN d)]

\* record_request, lines 54-108, at clock t
RecordBody(m, key, is_hit, response_time, cache_size, api_call_time, t) ==
    LET total == m.total_requests + 1
        hits == m.hits + (IF is_hit THEN 1 ELSE 0)
        times == m.response_times
    IN  [total_requests |-> total,
         hits |-> hits,
         misses |-> m.misses + (IF is_hit THEN 0 ELSE 1),
         response_times |->
             [cache_hits |-> IF is_hit THEN Append(times.cache_hits, response_time)
                             ELSE times.cache_hits,
              cache_misses |-> IF is_hit THEN times.cache_misses
                               ELSE Append(times.cache_misses, response_time),
              api_calls |-> IF ~is_hit /\ api_call_time > 0
                            THEN Append(times.api_calls, api_call_time)
                            ELSE times.api_calls],
         cache_size_history |->
             IF cache_size > 0
             THEN Append(m.cache_size_history,
                         [timestamp |-> t, size |-> cache_size])
             ELSE m.cache_size_history,
         hit_rate_history |->
             Append(m.hit_rate_history,
                    [timestamp |-> t, hit_rate |-> Ratio(hits * 100, total)]),
         performance_by_key |->
             LET key_stats == DefaultDictGetItem(m.performance_by_key, key)
             IN  Put(key_stats.dict, key,
                     KeyStats(key_stats.value, is_hit, response_time))]

RECURSIVE SumSeq(_)
SumSeq(q) == IF q = << >> THEN 0 ELSE Head(q) + SumSeq(Tail(q))

\* statistics.mean(q) if q else 0
MeanOrZero(q) == IF Len(q) > 0 THEN Ratio(SumSeq(q), Len(q)) ELSE Ratio(0, 1)

\* _calculate_cache_efficiency, lines 176-206: what it returns, and the
\* monitor as its reads leave it
_calculate_cache_efficiency(m) ==
    LET total == DictGetItem(m, "total_requests")
        hits == DictGetItem(total.dict, "hits")
    IN  [monitor |-> hits.dict,
         ret |->
            IF total.value = 0
            THEN [efficiency_score |-> Ratio(0, 1), status |-> "No data"]
            ELSE LET hit_rate == Ratio(hits.value * 100, total.value)
                 IN  [efficiency_score |-> hit_rate,
                      status |->
                          IF hit_rate.num >= 80 * hit_rate.den THEN "Excellent"
                          ELSE IF hit_rate.num >= 60 * hit_rate.den THEN "Good"
                          ELSE IF hit_rate.num >= 40 * hit_rate.den THEN "Fair"
                          ELSE "Poor",
                      api_calls_saved |-> hits.value,
                      cost_savings_percentage |->
                          Ratio(hits.value * 100, total.value)]]

ManyKeys == 1000

HotRequests == 10

\* _generate_recommendations, lines 208-242: what it returns, and the monitor
\* as its reads leave it.  key_performance is the defaultdict itself, read
\* with len() (lines 231, 236) and items() (line 235).
_generate_recommendations(m) ==
    LET total == DictGetItem(m, "total_requests")
        hits == DictGetItem(total.dict, "hits")
        hit_rate == HitRate(hits.value, total.value)
        times == DictGetItem(hits.dict, "response_times")
        hit_times == DictGetItem(times.value, "cache_hits")
        key_performance == DictGetItem(times.dict, "performance_by_key")
        many == DictLen(key_performance.value)
        items == DictItems(many.dict)
        hot_keys == {kv[1] : kv \in {x \in items.value : x[2].requests > HotRequests}}
        keys == DictLen(items.dict)
        onRate == IF hit_rate.num < 30 * hit_rate.den
                  THEN <<"Low hit rate: Consider increasing cache size or TTL">>
                  ELSE IF hit_rate.num < 50 * hit_rate.den
                       THEN <<"Moderate hit rate: Review cache key strategy">>
                       ELSE << >>
        onTimes == IF Len(hit_times.value) > 0
                      /\ SumSeq(hit_times.value) > SlowHit * Len(hit_times.value)
                   THEN <<"Slow cache hits: Consider optimizing cache storage">>
                   ELSE << >>
        onKeys == IF many.value > ManyKeys
                  THEN <<"Many unique keys: Consider cache key optimization">>
                  ELSE << >>
        onHot == IF Cardinality(hot_keys) * 10 < keys.value
                 THEN <<"Low key reuse: Consider pre-warming frequently used data">>
                 ELSE << >>
        found == onRate \o onTimes \o onKeys \o onHot
    IN  [monitor |->
             [key_performance.dict EXCEPT !.response_times = hit_times.dict,
                                          !.performance_by_key = keys.dict],
         ret |-> IF found = << >> THEN <<"Cache performance looks good!">>
                 ELSE found]

\* get_comprehensive_stats, lines 110-174, at clock t of a monitor made at 0:
\* what it returns, and the monitor as its reads and the two methods it calls
\* (lines 170-171, in this order) leave it.  key_performance is read with
\* items() (line 147).
ComprehensiveStats(m, t) ==
    LET total == DictGetItem(m, "total_requests")
        hits == DictGetItem(total.dict, "hits")
        misses == DictGetItem(hits.dict, "misses")
        times == DictGetItem(misses.dict, "response_times")
        key_performance == DictGetItem(times.dict, "performance_by_key")
        items == DictItems(key_performance.value)
        read == [key_performance.dict EXCEPT !.performance_by_key = items.dict]
        cache_efficiency == _calculate_cache_efficiency(read)
        recommendations == _generate_recommendations(cache_efficiency.monitor)
    IN  [monitor |-> recommendations.monitor,
         ret |->
            [basic_stats |->
                 [total_requests |-> total.value,
                  hits |-> hits.value,
                  misses |-> misses.value,
                  hit_rate |-> HitRate(hits.value, total.value),
                  session_duration |-> t,
                  requests_per_second |->
                      IF t > 0 THEN Ratio(total.value, t) ELSE Ratio(0, 1)],
             response_times |->
                 [avg_cache_hit |-> MeanOrZero(times.value.cache_hits),
                  avg_cache_miss |-> MeanOrZero(times.value.cache_misses),
                  avg_api_call |-> MeanOrZero(times.value.api_calls)],
             performance_insights |->
                 [cache_efficiency |-> cache_efficiency.ret,
                  optimization_recommendations |-> recommendations.ret]]]

record_request(key, is_hit, response_time, cache_size, api_call_time) ==
    /\ monitor' = RecordBody(monitor, key, is_hit, response_time, cache_size,
                             api_call_time, now)
    /\ last' = Returned("record_request", key, None, None, << >>)
    /\ returned' = CountCall(returned, "record_request", None)
    /\ UNCHANGED <<config, persistent, _cache, stats, now, hist, setlog, used,
                   threads>>

get_comprehensive_stats ==
    /\ LET out == ComprehensiveStats(monitor, now)
       IN  /\ monitor' = out.monitor
           /\ last' = Returned("get_comprehensive_stats", "", out.ret, None, << >>)
    /\ returned' = CountCall(returned, "get_comprehensive_stats", None)
    /\ UNCHANGED <<config, persistent, _cache, stats, now, hist, setlog, used,
                   threads>>

\* a call of _calculate_cache_efficiency on its own
calculate_cache_efficiency ==
    /\ LET out == _calculate_cache_efficiency(monitor)
       IN  /\ monitor' = out.monitor
           /\ last' = Returned("_calculate_cache_efficiency", "", out.ret, None, << >>)
    /\ returned' = CountCall(returned, "_calculate_cache_efficiency", None)
    /\ UNCHANGED <<config, persistent, _cache, stats, now, hist, setlog, used,
                   threads>>

\* a call of _generate_recommendations on its own
generate_recommendations ==
    /\ LET out == _generate_recommendations(monitor)
       IN  /\ monitor' = out.monitor
           /\ last' = Returned("_generate_recommendations", "", out.ret, None, << >>)
    /\ returned' = CountCall(returned, "_generate_recommendations", None)
    /\ UNCHANGED <<config, persistent, _cache, stats, now, hist, setlog, used,
                   threads>>

\* A monitor that callers record requests on and read as time passes, next
\* to a ProductionCache that no call is made on.
InitMonitor ==
    /\ __init__(1, TtlBound, LRU)
    /\ NoPersistentCache
    /\ monitor = CachePerformanceMonitor

NextMonitor ==
    /\ returned.calls < MonCalls
    /\ \/ \E key \in MonitoredKeys, is_hit \in BOOLEAN,
              response_time \in ResponseTimes, x \in Measured :
                record_request(key, is_hit, response_time, x.cache_size,
                               x.api_call_time)
       \/ get_comprehensive_stats
       \/ calculate_cache_efficiency
       \/ generate_recommendations
       \/ Tick

SpecMonitor == InitMonitor /\ [][NextMonitor]_vars

\* ------------------------------------------------------------------ claims
\* a step that is one call of op returning
Returns(op) == returned'.calls = returned.calls + 1 /\ last'.op = op

\* the ttl asked for by the set that stored k: the argument, or the default
\* when the argument was omitted
AskedTtl(k) ==
    IF setlog[k].ttl.given THEN setlog[k].ttl.seconds ELSE default_ttl

\* C1: with max_size >= 1, after every set call returns the store holds at
\* most max_size entries.
C1_CapacityAfterSet ==
    (last.op = "set" /\ max_size >= 1) => Len(_cache) <= max_size

\* C2: once every call of every thread has returned, total_requests equals
\* the number of get calls made.
C2_NoLostUpdates ==
    (\A t \in Threads : pc[t] = "idle") => stats.total_requests = returned.gets

\* C3: with max_size = 2 and policy LRU, after set(a), set(b), get(a), set(c)
\* with no entry expiring, exactly a and c are stored (b was evicted).
C3_LruScenario ==
    (eviction_policy = LRU /\ max_size = 2 /\ Len(hist) = 4)
        => Keys(_cache) = {hist[1].key, hist[4].key}

\* C4: under FIFO an evicted entry is no younger (by created_at) than any
\* entry that stays stored, and with max_size = 2 the calls set(a), set(b),
\* get(a), set(c) evict a.
C4_FifoOldestCreated ==
    eviction_policy = FIFO =>
        /\ last.op = "set" =>
              \A i \in 1 .. Len(last.evicted), j \in 1 .. Len(_cache) :
                  last.evicted[i].created_at <= _cache[j].created_at
        /\ (max_size = 2 /\ Len(hist) = 4) => hist[1].key \notin Keys(_cache)

\* what one step must satisfy for C5
C5_TtlStep ==
    \A k \in AllKeys :
        (Returns("get") /\ last'.key = k /\ setlog[k].stored) =>
            LET e == EntryOf(_cache, k)
                T == AskedTtl(k)
            IN  /\ now' - e.created_at < T =>
                      last'.ret = e.value /\ stats'.hits = stats.hits + 1
                /\ now - e.created_at > T =>
                      last'.ret = None /\ ~Has(_cache', k)

\* C5: a get(k) whose clock reads are all before T has elapsed since
\* set(k, v, ttl=T) returns v and counts a hit; a get(k) called once more than
\* T has elapsed returns None and leaves k not stored.
C5_TtlCorrectness == [][C5_TtlStep]_vars

\* what one step must satisfy for C6
C6_BoundaryStep ==
    \A k \in AllKeys :
        (Returns("get") /\ last'.key = k /\ Has(_cache, k)) =>
            LET e == EntryOf(_cache, k)
            IN  now - e.created_at >= e.ttl =>
                    /\ ~Has(_cache', k)
                    /\ stats'.misses = stats.misses + 1
                    /\ last'.ret = None

\* C6: a get on a stored key called when now - created_at >= ttl (the entry's
\* ttl) removes the entry, records a miss and returns None.
C6_ExpiryBoundary == [][C6_BoundaryStep]_vars

\* what one step must satisfy for C7, as amended
C7_PercentStep ==
    (Returns("get_stats") /\ last'.raised = None) =>
        LET basic == last'.ret.basic_stats
            hr == basic.hit_rate
        IN  /\ hr.den > 0
            /\ basic.hits = stats.hits
            /\ basic.total_requests = stats.total_requests
            /\ hr.num * basic.total_requests = 100 * basic.hits * hr.den
            /\ basic.total_requests = 0 => hr.num = 0
            /\ InCall' = {} =>
                   /\ basic.hits = returned.found
                   /\ basic.total_requests <= returned.gets
                   /\ hr.num * returned.gets >= 100 * returned.found * hr.den
                   /\ basic.total_requests = returned.gets =>
                          hr.num * returned.gets = 100 * returned.found * hr.den

\* C7 (as amended): the hit_rate of a get_stats snapshot is the percentage
\* 100 * hits / total_requests over the recorded counters hits and
\* total_requests, and 0 when total_requests = 0.  When the N get calls made
\* so far have all returned, H of them with a value, hits = H and
\* total_requests <= N, so that hit_rate >= 100 * H / N, with equality when
\* total_requests = N.
C7_HitRatePercent == [][C7_PercentStep]_vars

\* what one step must satisfy for C7, as stated
C7_FractionStep ==
    (Returns("get_stats") /\ last'.raised = None /\ InCall' = {}) =>
        LET hr == last'.ret.basic_stats.hit_rate
        IN  /\ hr.den > 0
            /\ IF returned.gets = 0 THEN hr.num = 0
               ELSE hr.num * returned.gets = returned.found * hr.den

\* C7 (as stated): after N get calls, H of which returned a value, the
\* reported hit_rate equals H / N, and 0 when N = 0.
C7_HitRateFraction == [][C7_FractionStep]_vars

\* a snapshot taken after two hits that were counted as one request
C7_Witness ==
    /\ last.op = "get_stats"
    /\ last.raised = None
    /\ InCall = {}
    /\ returned.gets = 2
    /\ returned.found = 2
    /\ last.ret.basic_stats.total_requests = 1
    /\ last.ret.basic_stats.hit_rate = Ratio(200, 1)

\* what one step must satisfy for C8
C8_InvalidateStep ==
    Returns("invalidate") =>
        LET k == last'.key
        IN  /\ last'.ret = Has(_cache, k)
            /\ ~Has(_cache', k)
            /\ _cache' = SelectSeq(_cache, LAMBDA e : e.key # k)
            /\ (last.op = "invalidate" /\ last.key = k) => last'.ret = FALSE

\* C8: invalidate(k) returns TRUE exactly when k was stored when it was
\* called, leaves k absent and every other entry as it was, in place; called
\* again right after an invalidate(k) it returns FALSE.
C8_Invalidate == [][C8_InvalidateStep]_vars

C8_Witness ==
    /\ last.op = "invalidate"
    /\ last.ret = TRUE
    /\ Len(_cache) >= 1
    /\ ~Has(_cache, last.key)

\* what one step must satisfy for C9
C9_ClearStep ==
    Returns("clear") =>
        /\ last'.ret = Len(_cache)
        /\ _cache' = << >>
        /\ stats' = stats

\* C9: clear() returns the number of entries stored when it was called,
\* leaves the store empty and leaves every statistics counter as it was.
C9_Clear == [][C9_ClearStep]_vars

C9_Witness ==
    /\ last.op = "clear"
    /\ last.ret >= 1
    /\ _cache = << >>
    /\ stats.total_requests >= 1

\* equal mappings have equal keys
C10_SameKey ==
    \A r1, r2 \in Requests :
        SameMapping(r1, r2) =>
            _make_key(r1.prompt, r1.params) = _make_key(r2.prompt, r2.params)

\* what one step must satisfy for C10
C10_KeyStep ==
    /\ C10_SameKey
    /\ Returns("get") =>
          \A s \in Stores, g \in Lookups, d \in 0 .. 1 :
              (SameMapping(s, g) /\ Has(_cache, KeyOf(s)) /\ get(g, 0, d)) =>
                  LET e == EntryOf(_cache, KeyOf(s))
                  IN  now + d - e.created_at < e.ttl => last'.ret = e.value

\* C10: two requests with the same prompt and the same key/value pairs, in
\* whatever insertion order, have the same key; so a get that passes the
\* pairs in one order returns the value that a set passing them in another
\* order stored (while the entry is within its ttl).
C10_KeyDeterminism == [][C10_KeyStep]_vars

C10_Witness ==
    /\ last.op = "get"
    /\ last.key = KeyOf(Request("capital", ParamsModelTemp))
    /\ last.ret # None
    /\ Request("capital", ParamsModelTemp) \in Stores \ Lookups

\* what one step must satisfy for C11
C11_KeyFailureStep ==
    \A r \in Unserializable, op \in {"get", "set", "invalidate"} :
        KeyRaises(r, op) =>
            /\ last'.raised = "TypeError"
            /\ _cache' = _cache
            /\ stats' = stats

\* C11: a get, set or invalidate whose params cannot be serialized into a key
\* raises to the caller, changes no stored entry and changes no counter.
C11_KeyFailurePropagates == [][C11_KeyFailureStep]_vars

C11_Witness ==
    /\ last.raised = "TypeError"
    /\ last.op = "get"
    /\ Len(_cache) >= 1
    /\ stats.total_requests >= 1

\* the threads inside a section that self._lock protects
InLocked == {t \in Threads : \E op \in LockOps : pc[t] = op \o "_locked"}

\* what one step must satisfy for C12
C12_AtomicStep ==
    /\ (_cache' # _cache \/ stats' # stats) =>
           \E t \in InLocked : _lock.owner = t /\ pc'[t] = "idle"
    /\ \A t \in Threads :
          LET k == frame[t].key
          IN  /\ (pc[t] = "set_locked" /\ pc'[t] = "idle") =>
                    /\ last'.ret = TRUE
                    /\ Has(_cache', k)
                    /\ EntryOf(_cache', k).value = frame[t].response
              /\ (pc[t] = "get_locked" /\ pc'[t] = "idle") =>
                    /\ last'.ret = IF Has(_cache, k) /\ Live(EntryOf(_cache, k), now)
                                   THEN EntryOf(_cache, k).value ELSE None
                    /\ Has(_cache', k) => EntryOf(_cache', k).value = last'.ret
              /\ (pc[t] = "invalidate_locked" /\ pc'[t] = "idle") =>
                    /\ last'.ret = Has(_cache, k)
                    /\ ~Has(_cache', k)

\* C12: every get, set and invalidate of a thread acts on the store and on
\* the counters in one step while that thread holds the lock: no step of a
\* thread that does not hold the lock changes either.  What a call returns is
\* decided by
\* the store as the calls that locked before it left it: a set leaves its own
\* response stored whatever was stored before (the last set wins), a get
\* returns the stored value and leaves it stored, an invalidate removes it.
C12_Linearizable == [][C12_AtomicStep]_vars

\* the keys the calls can store under
StoredKeys == {KeyOf(r) : r \in Stores}

\* every content a store can have: any number of the keys, in any order,
\* each entry with any access count up to MaxCalls
StoreContents ==
    UNION { { [i \in 1 .. n |->
                 [Entry(keys[i], "response 1", 0, TtlBound)
                      EXCEPT !.access_count = counts[i]]] :
              keys \in {f \in [1 .. n -> StoredKeys] :
                           \A i, j \in 1 .. n : f[i] = f[j] => i = j},
              counts \in [1 .. n -> 1 .. MaxCalls] } :
            n \in 0 .. Cardinality(StoredKeys) }

\* a turn of the eviction loop on store c (lines 106-114) removes an entry:
\* whenever the loop would run another turn, the candidate is a stored key
\* that is not empty, so line 113 deletes an entry and the store is shorter
EvictionTurnRemoves(c, ms, policy) ==
    (Len(c) > ms /\ Len(c) # 0) =>
        LET key_to_evict == _select_eviction_candidate(c, policy)
        IN  /\ key_to_evict \notin {None, ""}
            /\ Has(c, key_to_evict)
            /\ Len(Del(c, key_to_evict)) < Len(c)

\* the eviction loop ends on the store as it is and on every store content,
\* for the max_size and the policy of the cache: each turn shortens the store,
\* and the loop is left with no more than max_size entries, or none
EvictionLoopEnds ==
    /\ EvictionTurnRemoves(_cache, max_size, eviction_policy)
    /\ \A c \in StoreContents :
          /\ EvictionTurnRemoves(c, max_size, eviction_policy)
          /\ LET out == _enforce_size_limits(c, max_size, eviction_policy)
             IN  /\ Len(out.cache) = IF Len(c) > max_size
                                     THEN (IF max_size > 0 THEN max_size ELSE 0)
                                     ELSE Len(c)
                 /\ Len(out.evicted) = Len(c) - Len(out.cache)

\* C13: under fair scheduling every call a thread has started returns, so
\* taking the lock again inside get and set does not block and the lock is
\* released on every path, the paths that fail included; and the eviction
\* loop ends for every max_size and every store content.
C13_NoHang ==
    /\ \A t \in Threads : (pc[t] # "idle") ~> (pc[t] = "idle")
    /\ []EvictionLoopEnds

\* the sweep of a get has failed on a stored ttl that is not a number, the
\* get is in its handler, and another thread has taken the lock since
C13_Witness ==
    /\ ~Comparable(_cache)
    /\ pc[1] = "get_except"
    /\ pc[2] \in {op \o "_locked" : op \in LockOps}
    /\ _lock = [owner |-> 2, depth |-> 1]

\* the entries stored before a set that the set did not evict
Stayed == SelectSeq(_cache, LAMBDA e : \A i \in 1 .. Len(last'.evicted) :
                                          last'.evicted[i].key # e.key)

\* where the entry of key k is in the store
PositionOf(c, k) == CHOOSE i \in 1 .. Len(c) : c[i].key = k

\* what one step must satisfy for C14
C14_LruStep ==
    (eviction_policy = LRU /\ Returns("set")) =>
        \A i \in 1 .. Len(last'.evicted), j \in 1 .. Len(Stayed) :
            LET victim == last'.evicted[i]
                other == Stayed[j]
            IN  \/ victim.last_accessed < other.last_accessed
                \/ /\ victim.last_accessed = other.last_accessed
                   /\ PositionOf(_cache, victim.key) < PositionOf(_cache, other.key)

\* C14: under LRU every entry a set evicts was last accessed before every
\* entry that stays stored, or at the same time and inserted before it.
C14_LruVictim == [][C14_LruStep]_vars

\* what one step must satisfy for C15
C15_LfuStep ==
    (eviction_policy = LFU /\ Returns("set")) =>
        \A i \in 1 .. Len(last'.evicted), j \in 1 .. Len(Stayed) :
            LET victim == last'.evicted[i]
                other == Stayed[j]
            IN  \/ victim.access_count < other.access_count
                \/ /\ victim.access_count = other.access_count
                   /\ victim.last_accessed <= other.last_accessed

\* C15: under LFU every entry a set evicts has an access_count no larger than
\* that of any entry that stays stored, and among entries with the same count
\* it is the one accessed longest ago.
C15_LfuVictim == [][C15_LfuStep]_vars

\* the counters of the statistics
Counters == {"hits", "misses", "evictions", "errors", "total_requests"}

\* C16: no step of any call of any thread decreases one of the counters hits,
\* misses, evictions, errors and total_requests.
C16_CountersMonotonic ==
    [][\A counter \in Counters : stats'[counter] >= stats[counter]]_vars

\* what one step must satisfy for C17
C17_ErrorStep ==
    stats'.errors > stats.errors =>
        /\ Returns("get") => (last'.raised # None \/ last'.ret # None)
        /\ Returns("invalidate") => (last'.raised # None \/ last'.ret # FALSE)

\* C17: a get that failed inside the cache does not return what a miss
\* returns, and an invalidate that failed inside the cache does not return
\* what it returns for a key that is not stored.
C17_ErrorsReported == [][C17_ErrorStep]_vars

\* what one step must satisfy for C18
C18_FailureStep ==
    /\ (Returns("disk.get") /\ fault' # NoFault) =>
           /\ last'.raised = None
           /\ last'.ret = None
           /\ disk'.stats.misses = disk.stats.misses + 1
           /\ disk'.stats.hits = disk.stats.hits
           /\ disk'.stats.total_requests = disk.stats.total_requests + 1
           /\ disk'.stats.hits + disk'.stats.misses = disk'.stats.total_requests
    /\ (Returns("disk.set") /\ fault' # NoFault) =>
           /\ last'.raised = None
           /\ disk'.stats = disk.stats

\* C18: a PersistentResponseCache.get in which a storage operation raises
\* raises nothing, returns None and counts one miss and no hit, so that
\* hits + misses = total_requests; a set in which the write raises raises
\* nothing and leaves the counters as they were.
C18_StorageFailureIsMiss == [][C18_FailureStep]_vars

\* a get whose read raised although a live record of its key is stored
C18_Witness ==
    /\ last.op = "disk.get"
    /\ fault = GetFault
    /\ DiskHas(disk, last.key)
    /\ now - DiskRecord(disk, last.key).timestamp < disk.ttl
    /\ disk.stats.misses = 1

\* C19: for every record of the persistent cache and the current time,
\* PersistentResponseCache.get returns the stored response exactly when
\* ProductionCache.get returns it for an entry of the same created_at and
\* ttl, and a record past its ttl is deleted and counted as a miss.
C19_SameTtlSemantics ==
    \A rec \in disk.cache :
        LET d == DiskGetBody(disk, rec.key, now, NoFault)
            entry == Entry(rec.key, rec.response, rec.timestamp, disk.ttl)
            p == GetBody(<<entry>>, stats, rec.key, now, now)
        IN  /\ d.ret = p.ret
            /\ now - rec.timestamp > disk.ttl =>
                   /\ d.ret = None
                   /\ ~DiskHas(d.disk, rec.key)
                   /\ d.disk.stats.misses = disk.stats.misses + 1

\* the store changes only in a step of a thread that is inside a locked
\* section and owns the lock
C20_StoreStep ==
    _cache' # _cache =>
        \E t \in InLocked : _lock.owner = t /\ pc'[t] # pc[t]

\* at most one thread is inside the locked sections, and it owns the lock
C20_OneInside ==
    /\ Cardinality(InLocked) <= 1
    /\ \A t \in InLocked : _lock.owner = t

\* C20: no two threads are at the same time inside the locked sections of
\* get (with _cleanup_expired), set (with _enforce_size_limits), invalidate,
\* clear and get_stats, the thread inside owns the lock, and the store is
\* read and changed only by steps of that thread.
C20_MutualExclusion == []C20_OneInside /\ [][C20_StoreStep]_vars

\* one thread inside set's locked section while the other waits to enter
\* invalidate's
C20_Witness ==
    /\ pc[2] = "set_locked"
    /\ _lock = [owner |-> 2, depth |-> 1]
    /\ pc[1] = "invalidate_lock"

\* what one step must satisfy for C21
C21_LazyStep ==
    (/\ Returns("get")
     /\ Has(_cache, last'.key)
     /\ now - EntryOf(_cache, last'.key).created_at > EntryOf(_cache, last'.key).ttl)
        => /\ last'.ret = None
           /\ _cache' = Del(_cache, last'.key)
           /\ Len(_cache') = Len(_cache) - 1

\* C21: a get of a stored key whose ttl has elapsed returns nothing and
\* removes that entry and no other: the store is one entry smaller and every
\* other entry, expired or not, is still stored.
C21_LazyExpiry == [][C21_LazyStep]_vars

\* what one step must satisfy for C22
C22_HitStep ==
    (/\ Returns("get")
     /\ Has(_cache, last'.key)
     /\ now' - EntryOf(_cache, last'.key).created_at < EntryOf(_cache, last'.key).ttl)
        => LET before == EntryOf(_cache, last'.key)
           IN  /\ last'.ret = before.value
               /\ Has(_cache', last'.key)
               /\ EntryOf(_cache', last'.key) =
                      [before EXCEPT !.access_count = @ + 1,
                                     !.last_accessed = now']
               /\ stats'.hits = stats.hits + 1
               /\ \A i \in 1 .. Len(_cache) :
                      _cache[i].key # last'.key =>
                          /\ Has(_cache', _cache[i].key)
                          /\ EntryOf(_cache', _cache[i].key) = _cache[i]
               /\ \A i \in 1 .. Len(_cache') : Has(_cache, _cache'[i].key)

\* C22: a get of a stored, live key returns the stored value, adds one to the
\* entry's access_count, sets its last_accessed to the time of the get, adds
\* one to hits, and leaves the entry's value, created_at and ttl and the
\* fields of every other stored entry as they were: every other entry stored
\* before the get is stored after it with the same fields, and no entry appears.
C22_HitEffect == [][C22_HitStep]_vars

\* what one step must satisfy for C23
C23_SetTtlStep ==
    (Returns("set") /\ last'.ret = TRUE) =>
        LET asked == setlog'[last'.key].ttl
        IN  /\ Has(_cache', last'.key)
            /\ EntryOf(_cache', last'.key).ttl =
                   IF asked.given THEN asked.seconds ELSE default_ttl

\* C23: set(k, v, ttl=T) stores the entry with ttl T for every T passed, 0
\* included, and with default_ttl only when the ttl argument is omitted.
C23_PerEntryTtl == [][C23_SetTtlStep]_vars

\* every stored entry has been accessed at least once, and not before it was
\* created
C24_EntryInv ==
    \A i \in 1 .. Len(_cache) :
        /\ _cache[i].access_count >= 1
        /\ _cache[i].created_at <= _cache[i].last_accessed

\* a set leaves the entry of its key as a fresh one
C24_SetStep ==
    (Returns("set") /\ last'.ret = TRUE) =>
        /\ Has(_cache', last'.key)
        /\ EntryOf(_cache', last'.key).created_at = now'
        /\ EntryOf(_cache', last'.key).last_accessed = now'
        /\ EntryOf(_cache', last'.key).access_count = 1

\* C24: every stored entry has access_count >= 1 and created_at <=
\* last_accessed, and a set of a key, new or already stored, leaves its entry
\* with created_at = last_accessed = the time of the set and access_count = 1.
C24_EntryInvariants == []C24_EntryInv /\ [][C24_SetStep]_vars

\* a set that overwrote the one stored entry after a get had hit it
C24_Witness ==
    /\ last.op = "set"
    /\ last.evicted = << >>
    /\ returned = [calls |-> 3, gets |-> 1, found |-> 1]
    /\ stats.hits = 1
    /\ now > 0
    /\ Len(_cache) = 1
    /\ _cache[1].access_count = 1
    /\ _cache[1].created_at = now

\* C25: after _cleanup_expired has run at the current time no entry whose
\* ttl has elapsed (now - created_at >= ttl) is stored, and every entry whose
\* ttl has not elapsed is stored as it was.
C25_SweepRemovesElapsed ==
    LET swept == _cleanup_expired(_cache, now)
    IN  /\ \A i \in 1 .. Len(swept) : now - swept[i].created_at < swept[i].ttl
        /\ \A i \in 1 .. Len(_cache) :
               now - _cache[i].created_at < _cache[i].ttl =>
                   /\ Has(swept, _cache[i].key)
                   /\ EntryOf(swept, _cache[i].key) = _cache[i]

RECURSIVE SumRequests(_, _)
\* the requests of the keys ks of the per-key table, added up
SumRequests(pbk, ks) ==
    IF ks = {} THEN 0
    ELSE LET k == CHOOSE x \in ks : TRUE
         IN  pbk[k].requests + SumRequests(pbk, ks \ {k})

\* C26: after any sequence of record_request calls total_requests = hits +
\* misses, every key has requests = hits + misses, the requests of the keys
\* add up to total_requests, hit_rate_history has one item per request, and
\* the reported hit_rate and efficiency_score both are 100 * hits /
\* total_requests (0 when nothing was recorded), between 0 and 100.
C26_MonitorAccounting ==
    LET pbk == monitor.performance_by_key
        report == ComprehensiveStats(monitor, now).ret
        hit_rate == report.basic_stats.hit_rate
        score == report.performance_insights.cache_efficiency.efficiency_score
    IN  /\ monitor.total_requests = monitor.hits + monitor.misses
        /\ \A k \in DOMAIN pbk : pbk[k].requests = pbk[k].hits + pbk[k].misses
        /\ SumRequests(pbk, DOMAIN pbk) = monitor.total_requests
        /\ Len(monitor.hit_rate_history) = monitor.total_requests
        /\ hit_rate.num * monitor.total_requests = 100 * monitor.hits * hit_rate.den
        /\ score.num * hit_rate.den = hit_rate.num * score.den
        /\ monitor.total_requests = 0 => hit_rate.num = 0 /\ score.num = 0
        /\ hit_rate.den > 0 /\ score.den > 0
        /\ 0 <= hit_rate.num /\ hit_rate.num <= 100 * hit_rate.den

\* hits and misses recorded of two keys
C26_Witness ==
    /\ monitor.total_requests = 3
    /\ monitor.hits = 1
    /\ Cardinality(DOMAIN monitor.performance_by_key) = 2

\* the methods of the monitor that report
Reads == {"get_comprehensive_stats", "_calculate_cache_efficiency",
          "_generate_recommendations"}

\* the efficiency result in what a reporting method returned
EfficiencyIn(call) ==
    IF call.op = "get_comprehensive_stats"
    THEN call.ret.performance_insights.cache_efficiency
    ELSE call.ret

\* the recommendations in what a reporting method returned
RecommendationsIn(call) ==
    IF call.op = "get_comprehensive_stats"
    THEN call.ret.performance_insights.optimization_recommendations
    ELSE call.ret

\* what one step must satisfy for C27
C27_ReadStep ==
    (\E op \in Reads : Returns(op)) =>
        /\ monitor' = monitor
        /\ DOMAIN monitor'.performance_by_key = DOMAIN monitor.performance_by_key
        /\ _cache' = _cache
        /\ (/\ last.op \in Reads \ {"_generate_recommendations"}
            /\ last'.op \in Reads \ {"_generate_recommendations"})
               => EfficiencyIn(last') = EfficiencyIn(last)
        /\ (/\ last.op \in Reads \ {"_calculate_cache_efficiency"}
            /\ last'.op \in Reads \ {"_calculate_cache_efficiency"})
               => RecommendationsIn(last') = RecommendationsIn(last)

\* C27: get_comprehensive_stats, _calculate_cache_efficiency and
\* _generate_recommendations change no counter, no list and no entry of
\* performance_by_key of the monitor (no key is added) and no cache entry, and
\* two calls with no record_request between them, at the same time or at
\* different times, return the same efficiency and the same recommendations.
C27_MonitoringReadOnly == [][C27_ReadStep]_vars

\* a report read twice, the second time later than the request it reports
C27_Witness ==
    /\ last.op = "get_comprehensive_stats"
    /\ returned.calls = 3
    /\ monitor.total_requests = 1
    /\ Cardinality(DOMAIN monitor.performance_by_key) = 1
    /\ last.ret.basic_stats.total_requests = 1
    /\ last.ret.basic_stats.session_duration > monitor.hit_rate_history[1].timestamp

\* what one step must satisfy for C28
C28_InsertStep ==
    Returns("set") => Len(_cache) - Len(last'.evicted) <= max_size

\* C28: with max_size >= 0 the store never holds more than max_size + 1
\* entries, and the store that set inserts its entry into, after the
\* evictions of that set, holds at most max_size entries.
C28_SizeBound == [](Len(_cache) <= max_size + 1) /\ [][C28_InsertStep]_vars

\* a full store: max_size + 1 entries after a set that evicted one
C28_Witness ==
    /\ last.op = "set"
    /\ Len(last.evicted) = 1
    /\ Len(_cache) = max_size + 1

\* the keys of the entries the last call evicted
EvictedKeys(call) == {call.evicted[i].key : i \in 1 .. Len(call.evicted)}

\* what one step must satisfy for C29
C29_EvictionStep ==
    /\ Returns("set") =>
           /\ stats'.evictions = stats.evictions + Len(last'.evicted)
           /\ Cardinality(EvictedKeys(last')) = Len(last'.evicted)
           /\ EvictedKeys(last') \subseteq Keys(_cache)
           /\ Keys(_cache') = (Keys(_cache) \ EvictedKeys(last')) \cup {last'.key}
    /\ (\E op \in {"get", "invalidate", "clear", "get_stats"} : Returns(op)) =>
           stats'.evictions = stats.evictions
    /\ now' # now /\ returned' = returned => stats'.evictions = stats.evictions

\* C29: the evictions counter grows by one for each entry that
\* _enforce_size_limits removes during a set, each such eviction removes one
\* stored entry, and no removal by expiry, invalidate or clear changes it.
C29_EvictionsExact == [][C29_EvictionStep]_vars

\* an invalidate that removed an entry after a set had evicted one
C29_Witness ==
    /\ stats.evictions = 1
    /\ last.op = "invalidate"
    /\ last.ret = TRUE

\* C30: in every state of a cache shared by several threads hits + misses <=
\* total_requests, so that the hit rate is at most 100, and hits + misses =
\* total_requests when no get is in progress and none ended on its error path.
C30_CountersConsistent ==
    /\ stats.hits + stats.misses <= stats.total_requests
    /\ HitRate(stats.hits, stats.total_requests).num
           <= 100 * HitRate(stats.hits, stats.total_requests).den
    /\ ((\A t \in Threads : pc[t] \notin {"get_store", "get_lock", "get_locked",
                                         "get_except", "get_except_store"})
           /\ stats.errors = 0)
          => stats.hits + stats.misses = stats.total_requests

=============================================================================
